---- MODULE Spec2Model ----
(***************************************************************************)
(* Round lifecycle and slot allocation of the heads-or-tails betting bot   *)
(* (src/bet.py).  The persisted collections (users, settings, results,     *)
(* winners) are the state; every update handler of the bot is one action.  *)
(* python-telegram-bot dispatches updates one at a time, so a handler runs *)
(* from its first line to its last without another handler in between; the *)
(* /bet command and the later button press are two handlers, hence two     *)
(* actions.                                                                *)
(***************************************************************************)
EXTENDS Integers, FiniteSets, TLC

\* ------------------------------------------------------------- constants
\* The operator's chat id (the value of ADMIN_ID in the environment).
ADMIN_ID == 1
\* total_slots and available_slots of a freshly created settings document.
DefaultSlots == 30
\* handle_payment_screenshot refuses once payment_attempts reaches this.
MaxAttempts == 3

\* --------------------------------------------------------------- bounds
\* Chat ids that send updates to the bot, or are named as a command argument.
UserIds == {1, 2, 3}
\* Chat ids that use the player commands (/start, /bet, the photo upload).
Players == {2, 3}
\* /fixslots is called with an integer in 0 .. MaxSlots, or with a non-integer.
MaxSlots == 1
\* At most this many successful approvals between two restores of available_slots.
MaxApprovals == 2
\* Each result counter counts to at most this between two resets.
MaxWins == 1

None == "None"
Sides == {"heads", "tails"}
\* Arguments of /declare: the two sides and a word that is neither.
DeclareArgs == Sides \cup {"edge"}
\* The decimal text of the integers that occur as command arguments.
DecimalText == <<"0", "1", "2", "3", "4", "5", "6", "7", "8", "9">>
str(n) == DecimalText[n + 1]
\* Python's int() on an argument: defined on decimal text, ValueError otherwise.
IsIntText(s) == \E n \in 0 .. 9 : DecimalText[n + 1] = s
int(s) == CHOOSE n \in 0 .. 9 : DecimalText[n + 1] = s
\* Arguments of /approve and /disapprove: the text of a chat id.
IdArgs == {str(u) : u \in UserIds}
\* Arguments of /fixslots: integers, and a word int() rejects.
SlotArgs == {str(n) : n \in 0 .. MaxSlots} \cup {"abc"}
\* Arguments of /schedule and /setannouncement.
Datetimes == {"2023-10-31 18:00"}

VARIABLES
    users,      \* users_collection: user_id -> [bet, status, payment_attempts]
    settings,   \* the settings document
    results,    \* the results document: [heads, tails]
    winners,    \* the winners document's "winners" list, as a set of ids
    keyboard,   \* chats that hold the Heads/Tails inline keyboard sent by /bet
    fixed,      \* history: /fixslots has run since the last reset
    renewed,    \* history: users approved when the last reset ran, while nothing but
                \* their own /bet command has been handled since
    running,    \* the result a /declare suspended at an await is declaring, None
                \* while no handler is suspended
    blocked,    \* chats to which context.bot.send_message raises (the user has
                \* blocked the bot or deleted the account)
    reply,      \* the last reply the handler sent to its caller
    sent,       \* chats the handler sent (or forwarded) a message to, besides the reply
    report      \* the summaries /broadcast delivered to the operator: one or none

vars == <<users, settings, results, winners, keyboard, fixed, renewed, running,
          blocked, reply, sent, report>>

\* ------------------------------------------------------------- helpers
Registered == DOMAIN users

NewUser == [bet |-> None, status |-> None, payment_attempts |-> 0]

Approved == {u \in Registered : users[u].status = "approved"}

\* Mutant of WinnersOf: the status is not looked at.
WinnersOf_any_status(result) ==
    {u \in Registered : users[u].bet = result}

\* users_collection.find({"bet": result, "status": "approved"})
WinnersOf(result) ==
    {u \in Registered : users[u].bet = result /\ users[u].status = "approved"}

\* A loop over users_collection.find() that skips, or catches the KeyError of, the
\* document without a user_id: one send to every registered user.
NotifyAll == Registered

\* The loops of /close, /open and /setannouncement: the handler of a failed send
\* reads user['user_id'] again.  The first stored document is the empty one inserted
\* at start-up, the KeyError escapes the except clause and the loop ends there.
NotifyUntilKeyError == {}

Respond(r, to) == reply' = r /\ sent' = to /\ report' = {}

\* The reply that follows an awaited send_message outside any try: the send to a
\* blocked chat raises and the handler ends before reply_text.
ReplyAfterSend(r, to) == IF to \in blocked THEN None ELSE r

\* Texts of /broadcast.
Messages == {"Hello everyone!", "good_luck"}

\* parse_mode="Markdown": Telegram refuses a text in which an entity is opened
\* and never closed (a lone underscore) with BadRequest.
EntitiesParse(text) == text # "good_luck"

Init ==
    /\ users = <<>>
    /\ settings = [next_betting_time |-> None, betting_open |-> FALSE,
                   total_slots |-> DefaultSlots, available_slots |-> DefaultSlots,
                   result_announcement_time |-> None]
    /\ results = [heads |-> 0, tails |-> 0]
    /\ winners = {}
    /\ keyboard = {}
    /\ fixed = FALSE
    /\ renewed = {}
    /\ running = None
    /\ blocked = {}
    /\ reply = "Started"
    /\ sent = {}
    /\ report = {}

\* ------------------------------------------------------ player handlers
\* Mutant of start: the record is written without looking for an earlier one.
start_overwrites(c) ==
    /\ users' = [u \in Registered \cup {c} |-> IF u = c THEN NewUser ELSE users[u]]
    /\ Respond("Welcome", {})
    /\ UNCHANGED <<settings, results, winners, keyboard, fixed>>
    /\ renewed' = {}
    /\ UNCHANGED <<running, blocked>>

start(c) ==
    /\ users' = IF c \in Registered THEN users ELSE users @@ (c :> NewUser)
    /\ Respond("Welcome", {})
    /\ UNCHANGED <<settings, results, winners, keyboard, fixed>>
    /\ renewed' = {}
    /\ UNCHANGED <<running, blocked>>

\* Mutant of bet: the slots are compared with < 0 instead of <= 0.
bet_allows_zero(c) ==
    /\ IF ~settings.betting_open
       THEN Respond("RoundClosed", {}) /\ UNCHANGED keyboard
       ELSE IF settings.available_slots < 0
       THEN Respond("SlotsFull", {}) /\ UNCHANGED keyboard
       ELSE Respond("ChooseSide", {}) /\ keyboard' = keyboard \cup {c}
    /\ UNCHANGED <<users, settings, results, winners, fixed>>
    /\ renewed' = renewed \cap {c}
    /\ UNCHANGED <<running, blocked>>

bet(c) ==
    /\ IF ~settings.betting_open
       THEN Respond("RoundClosed", {}) /\ UNCHANGED keyboard
       ELSE IF settings.available_slots <= 0
       THEN Respond("SlotsFull", {}) /\ UNCHANGED keyboard
       ELSE Respond("ChooseSide", {}) /\ keyboard' = keyboard \cup {c}
    /\ UNCHANGED <<users, settings, results, winners, fixed>>
    /\ renewed' = renewed \cap {c}
    /\ UNCHANGED <<running, blocked>>

\* Mutant of handle_bet_choice: the check for an earlier bet is missing.
handle_bet_choice_overwrites(c, choice) ==
    /\ c \in keyboard
    /\ IF c \notin Registered
       THEN Respond("NotRegistered", {}) /\ UNCHANGED users
       ELSE /\ users' = [users EXCEPT ![c].bet = choice]
            /\ Respond("PaymentInstructions", {})
    /\ UNCHANGED <<settings, results, winners, keyboard, fixed>>
    /\ renewed' = {}
    /\ UNCHANGED <<running, blocked>>

\* Mutant of handle_bet_choice: the slot is taken when the bet is placed.
handle_bet_choice_takes_slot(c, choice) ==
    /\ c \in keyboard
    /\ IF c \notin Registered
       THEN Respond("NotRegistered", {}) /\ UNCHANGED <<users, settings>>
       ELSE IF users[c].bet # None
       THEN Respond("AlreadyBet", {}) /\ UNCHANGED <<users, settings>>
       ELSE /\ users' = [users EXCEPT ![c].bet = choice]
            /\ settings' = [settings EXCEPT !.available_slots = @ - 1]
            /\ Respond("PaymentInstructions", {})
    /\ UNCHANGED <<results, winners, keyboard, fixed>>
    /\ renewed' = {}
    /\ UNCHANGED <<running, blocked>>

handle_bet_choice(c, choice) ==
    /\ c \in keyboard
    /\ IF c \notin Registered
       THEN Respond("NotRegistered", {}) /\ UNCHANGED users
       ELSE IF users[c].bet # None
       THEN Respond("AlreadyBet", {}) /\ UNCHANGED users
       ELSE IF choice \notin Sides
       THEN Respond("InvalidChoice", {}) /\ UNCHANGED users
       ELSE /\ users' = [users EXCEPT ![c].bet = choice]
            /\ Respond("PaymentInstructions", {})
    /\ UNCHANGED <<settings, results, winners, keyboard, fixed>>
    /\ renewed' = {}
    /\ UNCHANGED <<running, blocked>>

\* Mutant of handle_payment_screenshot: the limit is compared with > instead of >=.
handle_payment_screenshot_one_more(c) ==
    /\ IF c \notin Registered
       THEN Respond("NotRegistered", {}) /\ UNCHANGED users
       ELSE IF users[c].bet = None
       THEN Respond("NoBetPlaced", {}) /\ UNCHANGED users
       ELSE IF users[c].payment_attempts > MaxAttempts
       THEN Respond("AttemptsExceeded", {}) /\ UNCHANGED users
       ELSE /\ users' = [users EXCEPT ![c].status = "waiting",
                                      ![c].payment_attempts = @ + 1]
            /\ Respond(IF users[c].payment_attempts + 1 = MaxAttempts
                       THEN "PaymentSentFinalWarning" ELSE "PaymentSent",
                       {ADMIN_ID})
    /\ UNCHANGED <<settings, results, winners, keyboard, fixed>>
    /\ renewed' = {}
    /\ UNCHANGED <<running, blocked>>

\* Mutant of handle_payment_screenshot: the warning comes one submission early.
handle_payment_screenshot_warns_early(c) ==
    /\ IF c \notin Registered
       THEN Respond("NotRegistered", {}) /\ UNCHANGED users
       ELSE IF users[c].bet = None
       THEN Respond("NoBetPlaced", {}) /\ UNCHANGED users
       ELSE IF users[c].payment_attempts >= MaxAttempts
       THEN Respond("AttemptsExceeded", {}) /\ UNCHANGED users
       ELSE /\ users' = [users EXCEPT ![c].status = "waiting",
                                      ![c].payment_attempts = @ + 1]
            /\ Respond(IF users[c].payment_attempts + 2 = MaxAttempts
                       THEN "PaymentSentFinalWarning" ELSE "PaymentSent",
                       {ADMIN_ID})
    /\ UNCHANGED <<settings, results, winners, keyboard, fixed>>
    /\ renewed' = {}
    /\ UNCHANGED <<running, blocked>>

handle_payment_screenshot(c) ==
    /\ IF c \notin Registered
       THEN Respond("NotRegistered", {}) /\ UNCHANGED users
       ELSE IF users[c].bet = None
       THEN Respond("NoBetPlaced", {}) /\ UNCHANGED users
       ELSE IF users[c].payment_attempts >= MaxAttempts
       THEN Respond("AttemptsExceeded", {}) /\ UNCHANGED users
       ELSE /\ users' = [users EXCEPT ![c].status = "waiting",
                                      ![c].payment_attempts = @ + 1]
            /\ Respond(IF users[c].payment_attempts + 1 = MaxAttempts
                       THEN "PaymentSentFinalWarning" ELSE "PaymentSent",
                       {ADMIN_ID})
    /\ UNCHANGED <<settings, results, winners, keyboard, fixed>>
    /\ renewed' = {}
    /\ UNCHANGED <<running, blocked>>

\* handle_payment_screenshot stopped between its two writes (the process is killed,
\* or the second update_one raises): the status is stored, the increment is not,
\* and nothing is answered or forwarded.
handle_payment_screenshot_interrupted(c) ==
    /\ c \in Registered
    /\ users[c].bet # None
    /\ users[c].payment_attempts < MaxAttempts
    /\ users' = [users EXCEPT ![c].status = "waiting"]
    /\ Respond(None, {})
    /\ UNCHANGED <<settings, results, winners, keyboard, fixed>>
    /\ renewed' = {}
    /\ UNCHANGED <<running, blocked>>

\* ---------------------------------------------------- operator handlers
\* No argument after the command (context.args is empty).
NoArg == ""

\* Mutant of approve_user: the slot is taken before the target is looked up.
approve_user_counts_unknown(c, arg) ==
    /\ IF c # ADMIN_ID
       THEN Respond("Unauthorized", {}) /\ UNCHANGED <<users, settings>>
       ELSE IF arg = NoArg
       THEN Respond("Usage", {}) /\ UNCHANGED <<users, settings>>
       ELSE /\ settings.total_slots - settings.available_slots < MaxApprovals
            /\ settings' = [settings EXCEPT !.available_slots = @ - 1]
            /\ IF int(arg) \in Registered
               THEN /\ users' = [users EXCEPT ![int(arg)].status = "approved",
                                              ![int(arg)].payment_attempts = 0]
                    /\ Respond(ReplyAfterSend("Approved", int(arg)), {int(arg)})
               ELSE Respond("UserNotFound", {}) /\ UNCHANGED users
    /\ UNCHANGED <<results, winners, keyboard, fixed>>
    /\ renewed' = {}
    /\ UNCHANGED <<running, blocked>>

approve_user(c, arg) ==
    /\ IF c # ADMIN_ID
       THEN Respond("Unauthorized", {}) /\ UNCHANGED <<users, settings>>
       ELSE IF arg = NoArg
       THEN Respond("Usage", {}) /\ UNCHANGED <<users, settings>>
       ELSE IF int(arg) \in Registered
       THEN /\ settings.total_slots - settings.available_slots < MaxApprovals
            /\ users' = [users EXCEPT ![int(arg)].status = "approved",
                                      ![int(arg)].payment_attempts = 0]
            /\ settings' = [settings EXCEPT !.available_slots = @ - 1]
            /\ Respond(ReplyAfterSend("Approved", int(arg)), {int(arg)})
       ELSE Respond("UserNotFound", {}) /\ UNCHANGED <<users, settings>>
    /\ UNCHANGED <<results, winners, keyboard, fixed>>
    /\ renewed' = {}
    /\ UNCHANGED <<running, blocked>>

\* Mutant of disapprove_user: payment_attempts is left as it was.
disapprove_user_keeps_attempts(c, arg) ==
    /\ IF c # ADMIN_ID
       THEN Respond("Unauthorized", {}) /\ UNCHANGED users
       ELSE IF arg = NoArg
       THEN Respond("Usage", {}) /\ UNCHANGED users
       ELSE IF int(arg) \in Registered
       THEN /\ users' = [users EXCEPT ![int(arg)].status = "disapproved"]
            /\ Respond(ReplyAfterSend("Disapproved", int(arg)), {int(arg)})
       ELSE Respond("UserNotFound", {}) /\ UNCHANGED users
    /\ UNCHANGED <<settings, results, winners, keyboard, fixed>>
    /\ renewed' = {}
    /\ UNCHANGED <<running, blocked>>

disapprove_user(c, arg) ==
    /\ IF c # ADMIN_ID
       THEN Respond("Unauthorized", {}) /\ UNCHANGED users
       ELSE IF arg = NoArg
       THEN Respond("Usage", {}) /\ UNCHANGED users
       ELSE IF int(arg) \in Registered
       THEN /\ users' = [users EXCEPT ![int(arg)].status = "disapproved",
                                      ![int(arg)].payment_attempts = 0]
            /\ Respond(ReplyAfterSend("Disapproved", int(arg)), {int(arg)})
       ELSE Respond("UserNotFound", {}) /\ UNCHANGED users
    /\ UNCHANGED <<settings, results, winners, keyboard, fixed>>
    /\ renewed' = {}
    /\ UNCHANGED <<running, blocked>>

\* Mutant of declare_result: the counters keep the latest result only.
declare_result_latest_only(c, arg) ==
    /\ IF c # ADMIN_ID
       THEN Respond("Unauthorized", {}) /\ UNCHANGED <<settings, results, winners>>
       ELSE IF arg = NoArg
       THEN Respond("Usage", {}) /\ UNCHANGED <<settings, results, winners>>
       ELSE IF arg \notin Sides
       THEN Respond("InvalidSide", {}) /\ UNCHANGED <<settings, results, winners>>
       ELSE /\ results[arg] < MaxWins
            /\ results' = [s \in Sides |-> IF s = arg THEN results[s] + 1 ELSE 0]
            /\ Respond("Declared", NotifyAll)
            /\ winners' = WinnersOf(arg)
            /\ settings' = [settings EXCEPT !.available_slots = settings.total_slots]
    /\ UNCHANGED <<users, keyboard, fixed>>
    /\ renewed' = {}
    /\ UNCHANGED <<running, blocked>>

\* Mutant of declare_result: the declaration also clears the bets of the round.
declare_result_clears_bets(c, arg) ==
    /\ IF c # ADMIN_ID
       THEN Respond("Unauthorized", {}) /\ UNCHANGED <<users, settings, results, winners>>
       ELSE IF arg = NoArg
       THEN Respond("Usage", {}) /\ UNCHANGED <<users, settings, results, winners>>
       ELSE IF arg \notin Sides
       THEN Respond("InvalidSide", {}) /\ UNCHANGED <<users, settings, results, winners>>
       ELSE /\ results[arg] < MaxWins
            /\ results' = [results EXCEPT ![arg] = @ + 1]
            /\ Respond("Declared", NotifyAll)
            /\ winners' = WinnersOf(arg)
            /\ users' = [u \in Registered |-> [users[u] EXCEPT !.bet = None]]
            /\ settings' = [settings EXCEPT !.available_slots = settings.total_slots]
    /\ UNCHANGED <<keyboard, fixed>>
    /\ renewed' = {}
    /\ UNCHANGED <<running, blocked>>

\* Mutant of declare_result: a failed send ends the handler, before the winners are
\* stored and the slots restored.
declare_result_stops_on_failure(c, arg) ==
    /\ IF c # ADMIN_ID
       THEN Respond("Unauthorized", {}) /\ UNCHANGED <<settings, results, winners>>
       ELSE IF arg = NoArg
       THEN Respond("Usage", {}) /\ UNCHANGED <<settings, results, winners>>
       ELSE IF arg \notin Sides
       THEN Respond("InvalidSide", {}) /\ UNCHANGED <<settings, results, winners>>
       ELSE /\ results[arg] < MaxWins
            /\ results' = [results EXCEPT ![arg] = @ + 1]
            /\ Respond("Declared", NotifyAll)
            /\ IF NotifyAll \cap blocked # {}
               THEN UNCHANGED <<settings, winners>>
               ELSE /\ winners' = WinnersOf(arg)
                    /\ settings' = [settings EXCEPT
                                       !.available_slots = settings.total_slots]
    /\ UNCHANGED <<users, keyboard, fixed>>
    /\ renewed' = {}
    /\ UNCHANGED <<running, blocked>>

declare_result(c, arg) ==
    /\ IF c # ADMIN_ID
       THEN Respond("Unauthorized", {}) /\ UNCHANGED <<settings, results, winners>>
       ELSE IF arg = NoArg
       THEN Respond("Usage", {}) /\ UNCHANGED <<settings, results, winners>>
       ELSE IF arg \notin Sides
       THEN Respond("InvalidSide", {}) /\ UNCHANGED <<settings, results, winners>>
       ELSE /\ results[arg] < MaxWins
            /\ results' = [results EXCEPT ![arg] = @ + 1]
            /\ Respond("Declared", NotifyAll)
            /\ winners' = WinnersOf(arg)
            /\ settings' = [settings EXCEPT !.available_slots = settings.total_slots]
    /\ UNCHANGED <<users, keyboard, fixed>>
    /\ renewed' = {}
    /\ UNCHANGED <<running, blocked>>

\* declare_result up to its first await: the counter is incremented and the
\* coroutine is suspended in the reply to the operator.
declare_result_begin(arg) ==
    /\ running = None
    /\ results[arg] < MaxWins
    /\ results' = [results EXCEPT ![arg] = @ + 1]
    /\ running' = arg
    /\ Respond("Declared", {})
    /\ UNCHANGED <<users, settings, winners, keyboard, fixed, blocked>>
    /\ renewed' = {}

\* declare_result after its last await: the sends are done, the winners are
\* stored, and total_slots is read and available_slots written in one statement.
declare_result_end ==
    /\ running \in Sides
    /\ winners' = WinnersOf(running)
    /\ settings' = [settings EXCEPT !.available_slots = settings.total_slots]
    /\ running' = None
    /\ Respond("Declared", NotifyAll)
    /\ UNCHANGED <<users, results, keyboard, fixed, blocked>>
    /\ renewed' = {}

\* Mutant of reset: the users' status is not cleared.
reset_keeps_status(c) ==
    /\ IF c # ADMIN_ID
       THEN /\ Respond("Unauthorized", {})
            /\ UNCHANGED <<users, settings, results, winners, fixed>>
       ELSE /\ users' = [u \in Registered |->
                           IF users[u].bet # None
                           THEN [users[u] EXCEPT !.bet = None, !.payment_attempts = 0]
                           ELSE users[u]]
            /\ winners' = {}
            /\ results' = [heads |-> 0, tails |-> 0]
            /\ settings' = [settings EXCEPT
                               !.available_slots = settings.total_slots,
                               !.next_betting_time = None,
                               !.result_announcement_time = None]
            /\ fixed' = FALSE
            /\ Respond("ResetComplete", NotifyAll)
    /\ UNCHANGED keyboard
    /\ renewed' = IF c = ADMIN_ID THEN Approved ELSE {}
    /\ UNCHANGED <<running, blocked>>

\* The second definition of reset (line 699) is the one the module keeps.
reset(c) ==
    /\ IF c # ADMIN_ID
       THEN /\ Respond("Unauthorized", {})
            /\ UNCHANGED <<users, settings, results, winners, fixed>>
       ELSE /\ users' = [u \in Registered |->
                           IF users[u].bet # None THEN NewUser ELSE users[u]]
            /\ winners' = {}
            /\ results' = [heads |-> 0, tails |-> 0]
            /\ settings' = [settings EXCEPT
                               !.available_slots = settings.total_slots,
                               !.next_betting_time = None,
                               !.result_announcement_time = None]
            /\ fixed' = FALSE
            /\ Respond("ResetComplete", NotifyAll)
    /\ UNCHANGED keyboard
    /\ renewed' = IF c = ADMIN_ID THEN Approved ELSE {}
    /\ UNCHANGED <<running, blocked>>

schedule_betting(c, arg) ==
    /\ IF c # ADMIN_ID
       THEN Respond("Unauthorized", {}) /\ UNCHANGED settings
       ELSE IF arg = NoArg
       THEN Respond("Usage", {}) /\ UNCHANGED settings
       ELSE /\ settings' = [settings EXCEPT !.next_betting_time = arg]
            /\ Respond("Scheduled", NotifyAll)
    /\ UNCHANGED <<users, results, winners, keyboard, fixed>>
    /\ renewed' = {}
    /\ UNCHANGED <<running, blocked>>

\* Mutant of fix_slots: the slots already taken stay taken.
fix_slots_keeps_allocation(c, arg) ==
    /\ IF c # ADMIN_ID
       THEN Respond("Unauthorized", {}) /\ UNCHANGED <<settings, fixed>>
       ELSE IF arg = NoArg
       THEN Respond("Usage", {}) /\ UNCHANGED <<settings, fixed>>
       ELSE IF IsIntText(arg)
       THEN /\ settings' = [settings EXCEPT
                               !.total_slots = int(arg),
                               !.available_slots =
                                   int(arg) - (settings.total_slots - @)]
            /\ fixed' = TRUE
            /\ Respond("SlotsSet", {})
       ELSE Respond("InvalidInput", {}) /\ UNCHANGED <<settings, fixed>>
    /\ UNCHANGED <<users, results, winners, keyboard>>
    /\ renewed' = {}
    /\ UNCHANGED <<running, blocked>>

fix_slots(c, arg) ==
    /\ IF c # ADMIN_ID
       THEN Respond("Unauthorized", {}) /\ UNCHANGED <<settings, fixed>>
       ELSE IF arg = NoArg
       THEN Respond("Usage", {}) /\ UNCHANGED <<settings, fixed>>
       ELSE IF IsIntText(arg)
       THEN /\ settings' = [settings EXCEPT !.total_slots = int(arg),
                                            !.available_slots = int(arg)]
            /\ fixed' = TRUE
            /\ Respond("SlotsSet", {})
       ELSE Respond("InvalidInput", {}) /\ UNCHANGED <<settings, fixed>>
    /\ UNCHANGED <<users, results, winners, keyboard>>
    /\ renewed' = {}
    /\ UNCHANGED <<running, blocked>>

\* The KeyError that ends the notification loop is caught by the handler's outer
\* except clause, which answers with the invalid-datetime text after the setting
\* was stored.
set_announcement_time(c, arg) ==
    /\ IF c # ADMIN_ID
       THEN Respond("Unauthorized", {}) /\ UNCHANGED settings
       ELSE IF arg = NoArg
       THEN Respond("Usage", {}) /\ UNCHANGED settings
       ELSE /\ settings' = [settings EXCEPT !.result_announcement_time = arg]
            /\ Respond("InvalidDatetime", NotifyUntilKeyError)
    /\ UNCHANGED <<users, results, winners, keyboard, fixed>>
    /\ renewed' = {}
    /\ UNCHANGED <<running, blocked>>

broadcast(c, arg) ==
    /\ IF c # ADMIN_ID
       THEN Respond("Unauthorized", {})
       ELSE IF arg = NoArg
       THEN Respond("Usage", {})
       ELSE /\ reply' = "Broadcasting"
            /\ sent' = NotifyAll \cup {ADMIN_ID}
            /\ report' =
                 IF EntitiesParse(arg) /\ ADMIN_ID \notin blocked
                 THEN {[total   |-> Cardinality(Registered) + 1,
                        success |-> Cardinality(NotifyAll \ blocked),
                        fail    |-> Cardinality(NotifyAll \cap blocked),
                        skipped |-> 1]}
                 ELSE {}
    /\ UNCHANGED <<users, settings, results, winners, keyboard, fixed>>
    /\ renewed' = {}
    /\ UNCHANGED <<running, blocked>>

\* Mutant of close_betting: the caller is not compared with ADMIN_ID.
close_betting_by_anyone(c) ==
    /\ settings' = [settings EXCEPT !.betting_open = FALSE]
    /\ Respond("BettingClosed", NotifyUntilKeyError)
    /\ UNCHANGED <<users, results, winners, keyboard, fixed>>
    /\ renewed' = {}
    /\ UNCHANGED <<running, blocked>>

\* Mutant of close_betting: closing the round also gives the slots back.
close_betting_restores_slots(c) ==
    /\ IF c # ADMIN_ID
       THEN Respond("Unauthorized", {}) /\ UNCHANGED settings
       ELSE /\ settings' = [settings EXCEPT !.betting_open = FALSE,
                                            !.available_slots = settings.total_slots]
            /\ Respond("BettingClosed", NotifyUntilKeyError)
    /\ UNCHANGED <<users, results, winners, keyboard, fixed>>
    /\ renewed' = {}
    /\ UNCHANGED <<running, blocked>>

close_betting(c) ==
    /\ IF c # ADMIN_ID
       THEN Respond("Unauthorized", {}) /\ UNCHANGED settings
       ELSE /\ settings' = [settings EXCEPT !.betting_open = FALSE]
            /\ Respond("BettingClosed", NotifyUntilKeyError)
    /\ UNCHANGED <<users, results, winners, keyboard, fixed>>
    /\ renewed' = {}
    /\ UNCHANGED <<running, blocked>>

open_betting(c) ==
    /\ IF c # ADMIN_ID
       THEN Respond("Unauthorized", {}) /\ UNCHANGED settings
       ELSE /\ settings' = [settings EXCEPT !.betting_open = TRUE]
            /\ Respond("BettingOpen", NotifyUntilKeyError)
    /\ UNCHANGED <<users, results, winners, keyboard, fixed>>
    /\ renewed' = {}
    /\ UNCHANGED <<running, blocked>>

\* --------------------------------------------------------------- dispatch
\* Mutant of Dispatch: the application is built with concurrent_updates(True), an
\* update is handled while another handler is suspended.
Dispatch_concurrent(handler) == handler

\* Application.builder().token(BOT_TOKEN).build() leaves concurrent_updates off:
\* the next update is handled when the handler of the last one has returned.
Dispatch(handler) == running = None /\ handler

\* ---------------------------------------------------------- environment
\* A chat blocks the bot: from now on send_message to it raises.
block(c) ==
    /\ c \notin blocked
    /\ blocked' = blocked \cup {c}
    /\ UNCHANGED <<users, settings, results, winners, keyboard, fixed, renewed,
                   running, reply, sent, report>>

\* The chat lifts the block.
unblock(c) ==
    /\ c \in blocked
    /\ blocked' = blocked \ {c}
    /\ UNCHANGED <<users, settings, results, winners, keyboard, fixed, renewed,
                   running, reply, sent, report>>

\* ------------------------------------------------------- specification
\* What the players of P send.
PlayerStep(P) ==
    \/ \E c \in P : start(c)
    \/ \E c \in P : bet(c)
    \/ \E c \in P, choice \in Sides : handle_bet_choice(c, choice)
    \/ \E c \in P : handle_payment_screenshot(c)

\* An operator command sent by a chat that is not the operator.
Intrusion(c) ==
    \/ \E arg \in {"2"} : approve_user(c, arg)
    \/ \E arg \in {"2"} : disapprove_user(c, arg)
    \/ \E arg \in {"heads"} : declare_result(c, arg)
    \/ reset(c)
    \/ \E arg \in Datetimes : schedule_betting(c, arg)
    \/ \E arg \in {"0"} : fix_slots(c, arg)
    \/ \E arg \in Datetimes : set_announcement_time(c, arg)
    \/ \E arg \in Datetimes : broadcast(c, arg)
    \/ close_betting(c)
    \/ open_betting(c)

\* Every command: one player, the operator with and without an argument, and the
\* other chats trying the operator's commands.  The two time setters are sent
\* without their argument here; NoticeSpec has them with one.
Next ==
    \/ PlayerStep({2})
    \/ \E arg \in IdArgs \cup {NoArg} : approve_user(ADMIN_ID, arg)
    \/ \E arg \in IdArgs \cup {NoArg} : disapprove_user(ADMIN_ID, arg)
    \/ \E arg \in DeclareArgs \cup {NoArg} : declare_result(ADMIN_ID, arg)
    \/ reset(ADMIN_ID)
    \/ schedule_betting(ADMIN_ID, NoArg)
    \/ \E arg \in SlotArgs \cup {NoArg} : fix_slots(ADMIN_ID, arg)
    \/ set_announcement_time(ADMIN_ID, NoArg)
    \/ \E arg \in Datetimes \cup {NoArg} : broadcast(ADMIN_ID, arg)
    \/ close_betting(ADMIN_ID)
    \/ open_betting(ADMIN_ID)
    \/ \E c \in UserIds \ {ADMIN_ID} : Intrusion(c)

Spec == Init /\ [][Next]_vars

\* The slot accounting of a round: two players, whose payment handler may stop
\* half-way, and the operator's commands that approve, disapprove and set the slots.
PairNext ==
    \/ PlayerStep(Players)
    \/ \E c \in Players : handle_payment_screenshot_interrupted(c)
    \/ \E arg \in IdArgs : approve_user(ADMIN_ID, arg)
    \/ \E arg \in IdArgs : disapprove_user(ADMIN_ID, arg)
    \/ reset(ADMIN_ID)
    \/ \E arg \in SlotArgs : fix_slots(ADMIN_ID, arg)
    \/ open_betting(ADMIN_ID)

PairSpec == Init /\ [][PairNext]_vars

\* The announcements: two players who bet and are approved, one of whom also sends
\* payments, and the operator's commands that notify them.
NoticeNext ==
    \/ \E c \in Players : start(c)
    \/ \E c \in Players : bet(c)
    \/ \E c \in Players, choice \in Sides : handle_bet_choice(c, choice)
    \/ handle_payment_screenshot(2)
    \/ \E u \in Players : approve_user(ADMIN_ID, str(u))
    \/ \E arg \in Sides : declare_result(ADMIN_ID, arg)
    \/ reset(ADMIN_ID)
    \/ \E arg \in Datetimes : schedule_betting(ADMIN_ID, arg)
    \/ \E arg \in Datetimes : set_announcement_time(ADMIN_ID, arg)
    \/ \E arg \in Datetimes : broadcast(ADMIN_ID, arg)
    \/ close_betting(ADMIN_ID)
    \/ open_betting(ADMIN_ID)

NoticeSpec == Init /\ [][NoticeNext]_vars

\* A round from the setting of the slots to the declaration: two players, and the
\* operator's commands that set the slots, open betting, approve and declare.
RoundNext ==
    \/ PlayerStep(Players)
    \/ \E arg \in IdArgs : approve_user(ADMIN_ID, arg)
    \/ \E arg \in Sides : declare_result(ADMIN_ID, arg)
    \/ \E arg \in SlotArgs : fix_slots(ADMIN_ID, arg)
    \/ open_betting(ADMIN_ID)

RoundSpec == Init /\ [][RoundNext]_vars

\* Deliveries that fail: one player who places a bet, a second chat that registers
\* and may block the bot at any time, and the operator's commands that write and
\* then notify.  A chat that has blocked the bot sends nothing.
FailNext ==
    \/ start(2)
    \/ bet(2)
    \/ \E choice \in Sides : handle_bet_choice(2, choice)
    \/ 3 \notin blocked /\ start(3)
    \/ block(3)
    \/ unblock(3)
    \/ \E u \in Players : approve_user(ADMIN_ID, str(u))
    \/ \E u \in Players : disapprove_user(ADMIN_ID, str(u))
    \/ \E arg \in Sides : declare_result(ADMIN_ID, arg)
    \/ reset(ADMIN_ID)
    \/ \E arg \in Datetimes : schedule_betting(ADMIN_ID, arg)
    \/ \E arg \in Datetimes : set_announcement_time(ADMIN_ID, arg)
    \/ \E arg \in Messages : broadcast(ADMIN_ID, arg)
    \/ close_betting(ADMIN_ID)
    \/ open_betting(ADMIN_ID)

FailSpec == Init /\ [][FailNext]_vars

\* The updates as the application dispatches them, /declare in the two parts its
\* awaits divide it into: one player, and the operator's commands that write
\* available_slots.
SerialNext ==
    \/ Dispatch(PlayerStep({2}))
    \/ Dispatch(\E arg \in IdArgs : approve_user(ADMIN_ID, arg))
    \/ Dispatch(reset(ADMIN_ID))
    \/ Dispatch(\E arg \in SlotArgs : fix_slots(ADMIN_ID, arg))
    \/ Dispatch(open_betting(ADMIN_ID))
    \/ Dispatch(\E arg \in Sides : declare_result_begin(arg))
    \/ declare_result_end

SerialSpec == Init /\ [][SerialNext]_vars

\* ---------------------------------------------------------------- claims
\* C1: in every reachable state 0 <= available_slots <= total_slots.
C1_SlotsWithinBounds ==
    /\ 0 <= settings.available_slots
    /\ settings.available_slots <= settings.total_slots

\* C2: capacity is never oversold: in a state reached from a reset (or from the
\* initial state) with no declare and no /fixslots since, the number of users whose
\* status is approved is at most total_slots.  Stated for a round with at least one
\* slot in which every approved user holds a bet and took one slot when approved.
C2_NeverOversold ==
    (/\ ~fixed /\ results.heads = 0 /\ results.tails = 0
     /\ settings.total_slots > 0
     /\ \A u \in Approved : users[u].bet \in Sides
     /\ settings.total_slots - settings.available_slots = Cardinality(Approved))
        => Cardinality(Approved) <= settings.total_slots

\* C3: approving a user whose status is already approved is refused with
\* AlreadyApproved and changes neither the user nor available_slots.
C3_ReapprovalRefused ==
    [][\A arg \in IdArgs :
          (/\ int(arg) \in Registered
           /\ users[int(arg)].status = "approved"
           /\ approve_user(ADMIN_ID, arg))
              => (reply' = "AlreadyApproved" /\ UNCHANGED <<users, settings>>)]_vars

\* C4 as stated: available_slots decreases only through a successful approve, and
\* then by exactly 1, with the target approved and its payment_attempts 0; placing
\* a bet, submitting a payment and disapproving leave it unchanged.
C4_DecreaseOnlyByApprove ==
    [][/\ settings'.available_slots < settings.available_slots
            => /\ settings'.available_slots = settings.available_slots - 1
               /\ \E arg \in IdArgs :
                     /\ approve_user(ADMIN_ID, arg)
                     /\ users'[int(arg)].status = "approved"
                     /\ users'[int(arg)].payment_attempts = 0
       /\ \A c \in Players :
             (\/ bet(c)
              \/ \E choice \in Sides : handle_bet_choice(c, choice)
              \/ handle_payment_screenshot(c))
                 => settings'.available_slots = settings.available_slots
       /\ \A arg \in IdArgs :
             disapprove_user(ADMIN_ID, arg)
                 => settings'.available_slots = settings.available_slots]_vars

\* C4 amended: a step other than /fixslots decreases available_slots only as a
\* successful approve, by exactly 1, with the target approved and its
\* payment_attempts 0; placing a bet, submitting a payment and disapproving leave
\* available_slots unchanged.
C4_DecreaseOnlyByApproveOrFixSlots ==
    [][/\ (/\ settings'.available_slots < settings.available_slots
           /\ ~ \E arg \in SlotArgs : fix_slots(ADMIN_ID, arg))
            => /\ settings'.available_slots = settings.available_slots - 1
               /\ \E arg \in IdArgs :
                     /\ approve_user(ADMIN_ID, arg)
                     /\ users'[int(arg)].status = "approved"
                     /\ users'[int(arg)].payment_attempts = 0
       /\ \A c \in Players :
             (\/ bet(c)
              \/ \E choice \in Sides : handle_bet_choice(c, choice)
              \/ handle_payment_screenshot(c))
                 => settings'.available_slots = settings.available_slots
       /\ \A arg \in IdArgs :
             disapprove_user(ADMIN_ID, arg)
                 => settings'.available_slots = settings.available_slots]_vars

\* An approval has taken a slot while another user holds a bet that is not approved.
C4_Witness ==
    /\ reply = "Approved"
    /\ settings.available_slots = settings.total_slots - 1
    /\ \E u \in Registered : users[u].bet \in Sides /\ users[u].status = "waiting"

\* C5: a user holds at most one bet per round: while a user's bet is heads or
\* tails, a further side choice is refused with AlreadyBet and leaves the user's
\* record unchanged, and the recorded side changes only by a reset.
C5_OneBetPerRound ==
    [][\A u \in Registered :
          users[u].bet \in Sides
              => /\ users'[u].bet = users[u].bet \/ reset(ADMIN_ID)
                 /\ \A choice \in Sides :
                       handle_bet_choice(u, choice)
                           => reply' = "AlreadyBet" /\ users'[u] = users[u]]_vars

\* A second side choice was refused.
C5_Witness ==
    /\ reply = "AlreadyBet"
    /\ \E u \in Registered : users[u].bet \in Sides

\* C6: a bet is recorded only in a state where betting is open and
\* available_slots > 0, also when betting was closed or the last slot was taken
\* between the /bet command and the side choice.
C6_BetOnlyWhileOpenWithSlots ==
    [][\A c \in Players, choice \in Sides :
          (handle_bet_choice(c, choice) /\ users' # users)
              => settings.betting_open /\ settings.available_slots > 0]_vars

\* C7: payment_attempts stays within 0 .. 3, and a submission by a user whose
\* payment_attempts is 3 is refused with AttemptsExceeded, changes neither the
\* counter nor the status and forwards nothing to the operator.
C7_AttemptsAtMostThree ==
    /\ [](\A u \in Registered : users[u].payment_attempts \in 0 .. 3)
    /\ [][\A c \in Players :
             (/\ c \in Registered
              /\ users[c].bet \in Sides
              /\ users[c].payment_attempts = 3
              /\ handle_payment_screenshot(c))
                 => /\ reply' = "AttemptsExceeded"
                    /\ users'[c] = users[c]
                    /\ sent' = {}]_vars

\* A fourth submission was refused.
C7_Witness ==
    /\ reply = "AttemptsExceeded"
    /\ \E u \in Registered : users[u].payment_attempts = 3 /\ users[u].status = "waiting"

\* C8: a successful declare(side) stores as winners exactly the registered users
\* whose bet is side and whose status is approved at that moment, in place of the
\* earlier winners; only a declare or a reset changes the stored winners.
C8_WinnersFixedAtDeclare ==
    [][/\ \A side \in Sides :
             declare_result(ADMIN_ID, side)
                 => winners' = {u \in Registered : /\ users[u].bet = side
                                                   /\ users[u].status = "approved"}
       /\ winners' # winners
             => \/ \E side \in Sides : declare_result(ADMIN_ID, side)
                \/ reset(ADMIN_ID)]_vars

\* A second declare of the round has replaced the winners of the first, and the
\* stored winners are not all the users who bet the declared side.
C8_Witness ==
    /\ reply = "Declared"
    /\ results.heads + results.tails = 2
    /\ winners # {}
    /\ \E u \in Registered \ winners : users[u].bet \in Sides

\* C9: an operator command sent by a chat other than the operator (each of the ten
\* commands, by each such chat) is answered with Unauthorized, changes no user
\* record, no setting, no result counter and no winner, and notifies nobody.
C9_UnauthorizedChangesNothing ==
    [][\A c \in UserIds \ {ADMIN_ID} :
          Intrusion(c)
              => /\ reply' = "Unauthorized"
                 /\ UNCHANGED <<users, settings, results, winners>>
                 /\ sent' = {}]_vars

\* A command was refused while a bet, an approval, a result and open betting were
\* there to be changed.
C9_Witness ==
    /\ reply = "Unauthorized"
    /\ settings.betting_open
    /\ results.heads = 1
    /\ \E u \in Registered : users[u].bet \in Sides /\ users[u].status = "approved"

\* C10: a reset by the operator clears bet, status and payment_attempts of every
\* user that had a bet, empties the winners, zeroes both result counters, sets
\* available_slots to total_slots and clears both times; the registered users,
\* total_slots and betting_open stay as they were.
C10_ResetEffect ==
    [][reset(ADMIN_ID)
          => /\ \A u \in Registered :
                   users[u].bet # None
                       => /\ users'[u].bet = None
                          /\ users'[u].status = None
                          /\ users'[u].payment_attempts = 0
             /\ winners' = {}
             /\ results'.heads = 0 /\ results'.tails = 0
             /\ settings'.available_slots = settings.total_slots
             /\ settings'.next_betting_time = None
             /\ settings'.result_announcement_time = None
             /\ DOMAIN users' = DOMAIN users
             /\ settings'.total_slots = settings.total_slots
             /\ settings'.betting_open = settings.betting_open]_vars

\* A reset has run with two registered users and betting open.
C10_Witness ==
    /\ reply = "ResetComplete"
    /\ sent = Players
    /\ keyboard = Players
    /\ settings.betting_open
    /\ \A u \in Registered : users[u] = NewUser

\* C11: a successful declare sets available_slots to total_slots and leaves
\* betting_open, total_slots and every user's bet, status and payment_attempts as
\* they were; a declare that follows another one without a reset therefore takes
\* its winners from the bets and approvals the first one saw.
C11_DeclareFrame ==
    [][\A side \in Sides :
          declare_result(ADMIN_ID, side)
              => /\ settings'.available_slots = settings.total_slots
                 /\ settings'.betting_open = settings.betting_open
                 /\ settings'.total_slots = settings.total_slots
                 /\ users' = users
                 /\ winners' = {u \in DOMAIN users' : /\ users'[u].bet = side
                                                      /\ users'[u].status = "approved"}]_vars

\* A second declare without a reset has found the approved bets of the first still
\* in place, while betting is open.
C11_Witness ==
    /\ reply = "Declared"
    /\ results.heads = 1 /\ results.tails = 1
    /\ settings.betting_open
    /\ settings.available_slots = settings.total_slots
    /\ \E u \in winners : users[u].bet \in Sides /\ users[u].status = "approved"
    /\ \E u \in Registered \ winners : users[u].bet \in Sides /\ users[u].status = "approved"

\* C12: for a user that was approved when the operator reset the round, with
\* betting open and total_slots > 0, the /bet command that follows the reset is
\* answered with the side keyboard, and the side choice that follows records the
\* chosen side with status None and payment_attempts 0.
C12_BetAfterReset ==
    [][\A c \in Players :
          (c \in renewed /\ settings.betting_open /\ settings.total_slots > 0)
              => /\ (reply = "ResetComplete" /\ bet(c)) => reply' = "ChooseSide"
                 /\ \A side \in Sides :
                       (reply = "ChooseSide" /\ handle_bet_choice(c, side))
                           => /\ reply' = "PaymentInstructions"
                              /\ users'[c] = [bet |-> side, status |-> None,
                                              payment_attempts |-> 0]]_vars

\* C13: the two writes of a payment submission are one unit, a crash in the middle
\* included: no step sets a user's status to waiting without adding 1 to the
\* user's payment_attempts, and none adds 1 without the status being waiting after.
C13_PaymentWritesAtomic ==
    [][\A u \in Registered :
          /\ (users'[u].status = "waiting" /\ users[u].status # "waiting")
                => users'[u].payment_attempts = users[u].payment_attempts + 1
          /\ users'[u].payment_attempts = users[u].payment_attempts + 1
                => users'[u].status = "waiting"]_vars

\* C14: a rejected request changes no user record, no setting, no result counter
\* and no winner: a side choice or a payment by an unregistered chat (NotRegistered,
\* no record created), a payment by a user without a bet (NoBetPlaced), an approve
\* or disapprove of an unknown id (UserNotFound), a declare of a side that is
\* neither heads nor tails (InvalidSide), a /fixslots with a non-integer
\* (InvalidInput).
C14_RejectedChangesNothing ==
    [][/\ reply' \in {"NotRegistered", "NoBetPlaced", "UserNotFound",
                      "InvalidSide", "InvalidInput"}
            => UNCHANGED <<users, settings, results, winners>>
       /\ \A c \in UserIds \ Registered :
             (\/ \E side \in Sides : handle_bet_choice(c, side)
              \/ handle_payment_screenshot(c))
                 => reply' = "NotRegistered" /\ DOMAIN users' = DOMAIN users
       /\ \A c \in Registered :
             (users[c].bet = None /\ handle_payment_screenshot(c))
                 => reply' = "NoBetPlaced"
       /\ \A arg \in IdArgs :
             (/\ int(arg) \notin Registered
              /\ approve_user(ADMIN_ID, arg) \/ disapprove_user(ADMIN_ID, arg))
                 => reply' = "UserNotFound"
       /\ declare_result(ADMIN_ID, "edge") => reply' = "InvalidSide"
       /\ fix_slots(ADMIN_ID, "abc") => reply' = "InvalidInput"]_vars

\* An approve of an unknown id was refused in a round that has an approved bet and
\* a slot taken.
C14_Witness ==
    /\ reply = "UserNotFound"
    /\ settings.betting_open
    /\ settings.available_slots = settings.total_slots - 1
    /\ \E u \in Registered : users[u].bet \in Sides /\ users[u].status = "approved"

\* C15: a disapprove of an existing user by the operator sets the user's status to
\* disapproved and payment_attempts to 0 and changes neither the user's bet nor
\* available_slots, also for a user blocked at 3 attempts; the next payment of a
\* disapproved user with a bet is accepted, with status waiting and
\* payment_attempts 1, and forwarded to the operator.
C15_DisapproveUnblocks ==
    [][/\ \A arg \in IdArgs :
             (int(arg) \in Registered /\ disapprove_user(ADMIN_ID, arg))
                 => /\ reply' = "Disapproved"
                    /\ users'[int(arg)] = [bet |-> users[int(arg)].bet,
                                           status |-> "disapproved",
                                           payment_attempts |-> 0]
                    /\ settings' = settings
       /\ \A c \in Players :
             (/\ c \in Registered
              /\ users[c].status = "disapproved"
              /\ users[c].bet \in Sides
              /\ handle_payment_screenshot(c))
                 => /\ reply' = "PaymentSent"
                    /\ sent' = {ADMIN_ID}
                    /\ users'[c] = [bet |-> users[c].bet, status |-> "waiting",
                                    payment_attempts |-> 1]]_vars

\* A first payment is recorded again for one user (status waiting, one attempt)
\* while the other user, who holds a bet, is disapproved.
C15_Witness ==
    /\ reply = "PaymentSent"
    /\ \E u \in Registered :
          /\ users[u].bet \in Sides
          /\ users[u].status = "waiting"
          /\ users[u].payment_attempts = 1
          /\ \E v \in Registered \ {u} :
                users[v].status = "disapproved" /\ users[v].bet \in Sides

\* The round is sold out: total_slots is N >= 1, N users are approved, each with a
\* bet, and the N approvals have brought available_slots from N to 0.
SoldOut ==
    /\ settings.total_slots >= 1
    /\ settings.available_slots = 0
    /\ Cardinality(Approved) = settings.total_slots
    /\ \A u \in Approved : users[u].bet \in Sides

\* C16: each approval takes one slot; once N approved bets have brought
\* available_slots from total_slots = N to 0, with betting open, the /bet command
\* of a further user is answered with SlotsFull, shows no keyboard and records
\* nothing; a declare(side) then stores as winners exactly those of the N users
\* that bet side, and sets available_slots to N.
C16_SoldOutRound ==
    [][/\ \A arg \in IdArgs :
             (int(arg) \in Registered /\ approve_user(ADMIN_ID, arg))
                 => settings'.available_slots = settings.available_slots - 1
       /\ SoldOut
             => /\ \A c \in Players \ Approved :
                       (settings.betting_open /\ bet(c))
                           => /\ reply' = "SlotsFull"
                              /\ keyboard' = keyboard
                              /\ users' = users
                /\ \A side \in Sides :
                       declare_result(ADMIN_ID, side)
                           => /\ winners' = {u \in Approved : users[u].bet = side}
                              /\ settings'.available_slots = settings.total_slots]_vars

\* The sold-out round was declared: its approved users are the winners, the slots
\* are back, and the other user holds neither a keyboard nor a bet.
C16_Witness ==
    /\ reply = "Declared"
    /\ settings.betting_open
    /\ settings.total_slots >= 1
    /\ settings.available_slots = settings.total_slots
    /\ Cardinality(Approved) = settings.total_slots
    /\ winners = Approved
    /\ \E c \in Registered \ Approved : users[c].bet = None /\ c \notin keyboard

\* C17: the result counters are cumulative between resets: a successful declare
\* adds exactly 1 to the counter of the declared side and leaves the other counter
\* as it was, and a step that changes a counter is a successful declare or a reset,
\* which sets both to 0.
C17_CountersCumulative ==
    [][/\ \A side \in Sides :
             declare_result(ADMIN_ID, side)
                 => \A s \in Sides :
                       results'[s] = results[s] + (IF s = side THEN 1 ELSE 0)
       /\ results' # results
             => \/ \E side \in Sides : declare_result(ADMIN_ID, side)
                \/ reset(ADMIN_ID) /\ results' = [heads |-> 0, tails |-> 0]]_vars

\* Both sides were declared once since the last reset, and the counters have been
\* carried through a later command.
C17_Witness ==
    /\ results = [heads |-> 1, tails |-> 1]
    /\ reply = "BettingClosed"

\* C18: /fixslots n by the operator, n an integer, sets total_slots and
\* available_slots to n whatever the number of approved users, and changes no
\* user record, no result counter, no winner and not betting_open.
C18_FixSlotsOverwrites ==
    [][\A arg \in SlotArgs :
          (IsIntText(arg) /\ fix_slots(ADMIN_ID, arg))
              => /\ reply' = "SlotsSet"
                 /\ settings'.total_slots = int(arg)
                 /\ settings'.available_slots = int(arg)
                 /\ settings'.betting_open = settings.betting_open
                 /\ UNCHANGED <<users, results, winners>>]_vars

\* The slots were set while two bets were approved and betting was open.
C18_Witness ==
    /\ reply = "SlotsSet"
    /\ settings.betting_open
    /\ settings.available_slots = settings.total_slots
    /\ Cardinality({u \in Approved : users[u].bet \in Sides}) = 2

\* C19: each of the three operator setters that succeeds (/schedule, /setannouncement,
\* /fixslots with an integer) is followed, within its handler, by one delivery
\* attempt of the new value to every registered user.
C19_SettersNotifyAll ==
    [][/\ \A arg \in Datetimes :
             schedule_betting(ADMIN_ID, arg) => sent' = Registered
       /\ \A arg \in Datetimes :
             set_announcement_time(ADMIN_ID, arg) => sent' = Registered
       /\ \A arg \in SlotArgs :
             (IsIntText(arg) /\ fix_slots(ADMIN_ID, arg)) => sent' = Registered]_vars

\* C20: in every fan-out (declare, reset, /schedule, /setannouncement, /open, /close
\* and /broadcast) each registered user gets a delivery attempt, whatever the
\* stored list holds: the record without a user id that the start-up inserts does
\* not end the deliveries to the records after it.  (/broadcast also sends its
\* summary to the operator.)
C20_FanOutReachesAll ==
    [][/\ \A side \in Sides : declare_result(ADMIN_ID, side) => sent' = Registered
       /\ reset(ADMIN_ID) => sent' = Registered
       /\ \A arg \in Datetimes :
             /\ schedule_betting(ADMIN_ID, arg) => sent' = Registered
             /\ set_announcement_time(ADMIN_ID, arg) => sent' = Registered
             /\ broadcast(ADMIN_ID, arg) => sent' \ {ADMIN_ID} = Registered
       /\ open_betting(ADMIN_ID) => sent' = Registered
       /\ close_betting(ADMIN_ID) => sent' = Registered]_vars

\* C24: an accepted payment submission carries the final-attempt warning exactly
\* when it is the user's third (payment_attempts was 2); with or without the
\* warning it sets the status to waiting, adds 1 to payment_attempts and is
\* forwarded to the operator.
C24_FinalWarningOnThird ==
    [][\A c \in Players :
          (/\ c \in Registered
           /\ users[c].bet \in Sides
           /\ users[c].payment_attempts < 3
           /\ handle_payment_screenshot(c))
              => /\ reply' = IF users[c].payment_attempts = 2
                             THEN "PaymentSentFinalWarning" ELSE "PaymentSent"
                 /\ users'[c] = [bet |-> users[c].bet, status |-> "waiting",
                                 payment_attempts |-> users[c].payment_attempts + 1]
                 /\ sent' = {ADMIN_ID}]_vars

\* The third submission of a user was accepted with the warning.
C24_Witness ==
    /\ reply = "PaymentSentFinalWarning"
    /\ sent = {ADMIN_ID}
    /\ \E u \in Registered : users[u].payment_attempts = 3 /\ users[u].status = "waiting"

\* C25: in every reachable state a user whose status is waiting, approved or
\* disapproved holds a bet, so that a reset leaves every registered user with
\* bet None, status None and payment_attempts 0.
C25_StatusImpliesBet ==
    /\ \A u \in Registered : users[u].status # None => users[u].bet \in Sides
    /\ reply = "ResetComplete" => \A u \in Registered : users[u] = NewUser

\* C26: a user whose status is approved stays approved until a disapprove of that
\* user or a reset; in particular a payment sent by an approved user leaves the
\* status approved.
C26_ApprovedStays ==
    [][\A u \in Approved :
          users'[u].status # "approved"
              => \/ disapprove_user(ADMIN_ID, str(u))
                 \/ reset(ADMIN_ID)]_vars

\* C27: slot accounting matches the ledger: in a state reached from a reset (or
\* the initial state) with no declare and no /fixslots since, total_slots minus
\* available_slots is the number of users whose status is approved.
C27_SlotsMatchLedger ==
    (~fixed /\ results.heads = 0 /\ results.tails = 0)
        => settings.total_slots - settings.available_slots = Cardinality(Approved)

\* C28: /start is idempotent: sent by a chat that has a record it leaves every
\* record as it was, sent by a new chat it adds one record, for that chat, with bet
\* None, status None and payment_attempts 0; either way it is answered with the
\* welcome text, and no step of any handler removes a record.
C28_RegisterIdempotent ==
    [][/\ \A c \in UserIds :
             start(c)
                 => /\ reply' = "Welcome"
                    /\ IF c \in Registered
                       THEN users' = users
                       ELSE /\ DOMAIN users' = DOMAIN users \cup {c}
                            /\ users'[c] = [bet |-> None, status |-> None,
                                            payment_attempts |-> 0]
                            /\ \A u \in Registered : users'[u] = users[u]
       /\ DOMAIN users \subseteq DOMAIN users']_vars

\* A user with an approved bet has sent /start again.
C28_Witness ==
    /\ reply = "Welcome"
    /\ \E u \in Registered : users[u].bet \in Sides /\ users[u].status = "approved"

\* C29: /open and /close by the operator set betting_open to true and to false
\* and change no other setting, no user record, no result counter and no winner;
\* no other step changes betting_open; and while betting_open is false every
\* /bet command is answered with RoundClosed and changes nothing.
C29_OnlyOpenCloseToggle ==
    [][/\ open_betting(ADMIN_ID)
             => /\ settings' = [settings EXCEPT !.betting_open = TRUE]
                /\ UNCHANGED <<users, results, winners>>
       /\ close_betting(ADMIN_ID)
             => /\ settings' = [settings EXCEPT !.betting_open = FALSE]
                /\ UNCHANGED <<users, results, winners>>
       /\ settings'.betting_open # settings.betting_open
             => open_betting(ADMIN_ID) \/ close_betting(ADMIN_ID)
       /\ \A c \in UserIds :
             (~settings.betting_open /\ bet(c))
                 => /\ reply' = "RoundClosed"
                    /\ UNCHANGED <<users, settings, results, winners, keyboard>>]_vars

\* A /bet command has been refused in a round that was open before: a user holds
\* an approved bet, a slot is taken and betting is closed.
C29_Witness ==
    /\ reply = "RoundClosed"
    /\ ~settings.betting_open
    /\ settings.available_slots < settings.total_slots
    /\ \E u \in Registered : users[u].bet \in Sides /\ users[u].status = "approved"

\* C21: the state persisted by /approve, /disapprove, /declare, /reset,
\* /schedule, /setannouncement, /open and /close does not depend on which sends
\* fail: after each of them the user records, the settings, the result counters
\* and the winners are what the command writes, whatever chats are blocked; a
\* /declare whose sends partly fail still stores the winners and restores
\* available_slots.
C21_DeliveryFailuresKeepState ==
    [][/\ \A t \in Registered :
             approve_user(ADMIN_ID, str(t))
                 => /\ users' = [users EXCEPT ![t].status = "approved",
                                              ![t].payment_attempts = 0]
                    /\ settings' = [settings EXCEPT !.available_slots = @ - 1]
                    /\ UNCHANGED <<results, winners>>
       /\ \A t \in Registered :
             disapprove_user(ADMIN_ID, str(t))
                 => /\ users' = [users EXCEPT ![t].status = "disapproved",
                                              ![t].payment_attempts = 0]
                    /\ UNCHANGED <<settings, results, winners>>
       /\ \A r \in Sides :
             declare_result(ADMIN_ID, r)
                 => /\ results' = [results EXCEPT ![r] = @ + 1]
                    /\ winners' = WinnersOf(r)
                    /\ settings' = [settings EXCEPT
                                       !.available_slots = settings.total_slots]
                    /\ UNCHANGED users
       /\ reset(ADMIN_ID)
             => /\ users' = [u \in Registered |->
                                IF users[u].bet # None THEN NewUser ELSE users[u]]
                /\ settings' = [settings EXCEPT
                                   !.available_slots = settings.total_slots,
                                   !.next_betting_time = None,
                                   !.result_announcement_time = None]
                /\ results' = [heads |-> 0, tails |-> 0]
                /\ winners' = {}
       /\ \A d \in Datetimes :
             schedule_betting(ADMIN_ID, d)
                 => /\ settings' = [settings EXCEPT !.next_betting_time = d]
                    /\ UNCHANGED <<users, results, winners>>
       /\ \A d \in Datetimes :
             set_announcement_time(ADMIN_ID, d)
                 => /\ settings' = [settings EXCEPT !.result_announcement_time = d]
                    /\ UNCHANGED <<users, results, winners>>
       /\ open_betting(ADMIN_ID)
             => /\ settings' = [settings EXCEPT !.betting_open = TRUE]
                /\ UNCHANGED <<users, results, winners>>
       /\ close_betting(ADMIN_ID)
             => /\ settings' = [settings EXCEPT !.betting_open = FALSE]
                /\ UNCHANGED <<users, results, winners>>]_vars

\* A result has been declared while one registered chat was blocked and another
\* was not: the winner is stored and the slot taken by the approval is back.
C21_Witness ==
    /\ reply = "Declared"
    /\ sent \cap blocked # {}
    /\ sent \ blocked # {}
    /\ winners # {}
    /\ settings.available_slots = settings.total_slots

\* C23: /broadcast with a message always ends with a summary delivered to the
\* operator in which delivered + failed + skipped is the number of stored user
\* documents (the registered users and the document without a user_id), whatever
\* sends fail.
C23_BroadcastReports ==
    [][\A m \in Messages :
          broadcast(ADMIN_ID, m)
              => /\ report' # {}
                 /\ \A r \in report' :
                       r.success + r.fail + r.skipped = Cardinality(Registered) + 1]_vars

\* C22: the writes to available_slots are serialized: while a /declare is
\* suspended no /approve, /reset or /fixslots is handled; the end of a /declare
\* and a /reset leave available_slots = total_slots; every /approve of a stored
\* user after that takes exactly one slot; and no other step writes
\* available_slots.
C22_SlotWritesSerialized ==
    [][/\ running # None
             => /\ \A arg \in IdArgs : ~approve_user(ADMIN_ID, arg)
                /\ ~reset(ADMIN_ID)
                /\ \A arg \in SlotArgs : ~fix_slots(ADMIN_ID, arg)
       /\ (declare_result_end \/ reset(ADMIN_ID))
             => settings'.available_slots = settings'.total_slots
       /\ \A t \in Registered :
             approve_user(ADMIN_ID, str(t))
                 => settings'.available_slots = settings.available_slots - 1
       /\ settings'.available_slots # settings.available_slots
             => \/ declare_result_end
                \/ reset(ADMIN_ID)
                \/ \E t \in Registered : approve_user(ADMIN_ID, str(t))
                \/ \E arg \in SlotArgs : fix_slots(ADMIN_ID, arg)]_vars

\* A user has been approved after a /declare that ran to its end: one slot is
\* taken since the restore.
C22_Witness ==
    /\ running = None
    /\ reply = "Approved"
    /\ results.heads + results.tails > 0
    /\ ~fixed
    /\ settings.available_slots = settings.total_slots - 1

====
